---- MODULE Spec2Model ----
(***************************************************************************)
(* Model of scripts/convert_csv.py: the CSV normaliser convert_csv and the *)
(* entry point that calls it.  A text is a sequence of one-character       *)
(* strings, a CSV record is a sequence of texts, a file is a sequence of   *)
(* CSV records (what csv.reader yields / csv.writer.writerow appends).     *)
(***************************************************************************)
EXTENDS Integers, Sequences, FiniteSets, TLC

\* ------------------------------------------------------------------ bounds
\* Largest number of CSV records (first line included) in a source file.
MaxRecords == 4

\* ------------------------------------------------------- program constants
input_file == "./data/temp_raw.csv"
output_file == "./data/BTCUSDT.csv"
\* len(row) < 7
MinFields == 7
\* if i < 6 in the sample echo
SampleLines == 6

HEADER ==
  << <<"t","i","m","e","s","t","a","m","p">>, <<"o","p","e","n">>,
     <<"h","i","g","h">>, <<"l","o","w">>, <<"c","l","o","s","e">>,
     <<"v","o","l","u","m","e">> >>

\* ------------------------------------------------- datetime.strptime model
DigitChars == <<"0","1","2","3","4","5","6","7","8","9">>

IsDigit(c) == \E k \in 1..10 : DigitChars[k] = c

DigitVal(c) == (CHOOSE k \in 1..10 : DigitChars[k] = c) - 1

AllDigits(t) == \A k \in 1..Len(t) : IsDigit(t[k])

RECURSIVE IntOf(_)
IntOf(t) ==
  IF Len(t) = 0 THEN 0
  ELSE 10 * IntOf(SubSeq(t, 1, Len(t) - 1)) + DigitVal(t[Len(t)])

\* The format literals T and Z are matched ignoring case (re.IGNORECASE).
LitMatch(c, lit) ==
  \/ c = lit
  \/ lit = "T" /\ c = "t"
  \/ lit = "Z" /\ c = "z"

\* Index of the first character at or after i that matches the literal,
\* Len(s)+1 when there is none.
FindLit(s, i, lit) ==
  IF \E j \in i..Len(s) : LitMatch(s[j], lit)
  THEN CHOOSE j \in i..Len(s) :
         LitMatch(s[j], lit) /\ \A k \in i..(j - 1) : ~LitMatch(s[k], lit)
  ELSE Len(s) + 1

\* (?P<Y>\d\d\d\d)
MatchY(t) == Len(t) = 4 /\ AllDigits(t)
\* (?P<m>1[0-2]|0[1-9]|[1-9])
MatchMonth(t) == Len(t) \in 1..2 /\ AllDigits(t) /\ IntOf(t) \in 1..12
\* (?P<d>3[0-1]|[1-2]\d|0[1-9]|[1-9]| [1-9])
MatchDay(t) ==
  \/ Len(t) \in 1..2 /\ AllDigits(t) /\ IntOf(t) \in 1..31
  \/ Len(t) = 2 /\ t[1] = " " /\ IsDigit(t[2]) /\ DigitVal(t[2]) \in 1..9
\* (?P<H>2[0-3]|[0-1]\d|\d)
MatchH(t) == Len(t) \in 1..2 /\ AllDigits(t) /\ IntOf(t) \in 0..23
\* (?P<M>[0-5]\d|\d)
MatchM(t) == Len(t) \in 1..2 /\ AllDigits(t) /\ IntOf(t) \in 0..59
\* (?P<S>6[0-1]|[0-5]\d|\d)
MatchS(t) == Len(t) \in 1..2 /\ AllDigits(t) /\ IntOf(t) \in 0..61
\* (?P<f>[0-9]{1,6})
MatchF(t) == Len(t) \in 1..6 /\ AllDigits(t)

DayOf(t) == IF t[1] = " " THEN DigitVal(t[2]) ELSE IntOf(t)

IsLeap(y) == (y % 4 = 0) /\ ((y % 100 # 0) \/ (y % 400 = 0))

DaysInMonth(y, m) ==
  IF m = 2 THEN (IF IsLeap(y) THEN 29 ELSE 28)
  ELSE IF m \in {4, 6, 9, 11} THEN 30 ELSE 31

ValueError == [ok |-> FALSE]

\* datetime.strptime(timestamp_str, "%Y-%m-%dT%H:%M:%S.%fZ"): the compiled
\* regular expression must match from the start, nothing may remain after
\* it, and the fields must form a date datetime() accepts.
strptime(s) ==
  LET p1 == FindLit(s, 1, "-")
      p2 == FindLit(s, p1 + 1, "-")
      p3 == FindLit(s, p2 + 1, "T")
      p4 == FindLit(s, p3 + 1, ":")
      p5 == FindLit(s, p4 + 1, ":")
      p6 == FindLit(s, p5 + 1, ".")
      p7 == FindLit(s, p6 + 1, "Z")
      fY == SubSeq(s, 1, p1 - 1)
      fm == SubSeq(s, p1 + 1, p2 - 1)
      fd == SubSeq(s, p2 + 1, p3 - 1)
      fH == SubSeq(s, p3 + 1, p4 - 1)
      fM == SubSeq(s, p4 + 1, p5 - 1)
      fS == SubSeq(s, p5 + 1, p6 - 1)
      ff == SubSeq(s, p6 + 1, p7 - 1)
  IN IF /\ p7 = Len(s)
        /\ MatchY(fY) /\ MatchMonth(fm) /\ MatchDay(fd)
        /\ MatchH(fH) /\ MatchM(fM) /\ MatchS(fS) /\ MatchF(ff)
     THEN IF /\ IntOf(fY) >= 1
             /\ DayOf(fd) <= DaysInMonth(IntOf(fY), IntOf(fm))
             /\ IntOf(fS) <= 59
          THEN [ok |-> TRUE, year |-> IntOf(fY), month |-> IntOf(fm),
                day |-> DayOf(fd), hour |-> IntOf(fH), minute |-> IntOf(fM),
                second |-> IntOf(fS)]
          ELSE ValueError
     ELSE ValueError

\* ------------------------------------------------- datetime.strftime model
RECURSIVE Decimal(_)
Decimal(n) ==
  IF n < 10 THEN <<DigitChars[n + 1]>>
  ELSE Decimal(n \div 10) \o <<DigitChars[(n % 10) + 1]>>

RECURSIVE ZeroPad(_, _)
ZeroPad(t, w) == IF Len(t) >= w THEN t ELSE ZeroPad(<<"0">> \o t, w)

\* %Y: the C library's conversion; four digits zero-filled on some
\* platforms, the bare decimal number on others (glibc).
FormatYear(y, pads) == IF pads THEN ZeroPad(Decimal(y), 4) ELSE Decimal(y)

\* dt.strftime("%Y-%m-%d %H:%M:%S")
strftime(dt, pads) ==
  FormatYear(dt.year, pads) \o <<"-">> \o ZeroPad(Decimal(dt.month), 2)
    \o <<"-">> \o ZeroPad(Decimal(dt.day), 2) \o <<" ">>
    \o ZeroPad(Decimal(dt.hour), 2) \o <<":">>
    \o ZeroPad(Decimal(dt.minute), 2) \o <<":">>
    \o ZeroPad(Decimal(dt.second), 2)

\* ------------------------------------------------------------ sample data
TS_GOOD ==
  <<"2","0","2","0","-","0","1","-","0","1","T","0","0",":","0","0",":",
    "0","0",".","0","0","0","Z">>
TS_UNPADDED ==
  <<"2","0","2","1","-","2","-","3","T","4",":","5",":","6",".","5","Z">>
TS_NOZ ==
  <<"2","0","2","0","-","0","1","-","0","1","T","0","0",":","0","0",":",
    "0","0",".","0","0","0">>
TS_FEB30 ==
  <<"2","0","2","0","-","0","2","-","3","0","T","0","0",":","0","0",":",
    "0","0",".","0","0","0","Z">>
TS_Y999 ==
  <<"0","9","9","9","-","0","1","-","0","1","T","0","0",":","0","0",":",
    "0","0",".","0","0","0","Z">>

\* Time UTC,Open,High,Low,Close,Volume,Trades
ROW_VENDOR_HEADER ==
  << <<"T","i","m","e"," ","U","T","C">>, <<"O","p","e","n">>,
     <<"H","i","g","h">>, <<"L","o","w">>, <<"C","l","o","s","e">>,
     <<"V","o","l","u","m","e">>, <<"T","r","a","d","e","s">> >>
\* 2020-01-01T00:00:00.000Z,7200.0,7200.5,7199.0,7200.2,1.23,5
ROW_CANDLE ==
  << TS_GOOD, <<"7","2","0","0",".","0">>, <<"7","2","0","0",".","5">>,
     <<"7","1","9","9",".","0">>, <<"7","2","0","0",".","2">>,
     <<"1",".","2","3">>, <<"5">> >>
\* eight fields, timestamp without zero padding
ROW_EIGHT ==
  << TS_UNPADDED, <<"1">>, <<"2">>, <<"3">>, <<"4">>, <<"5">>, <<"6">>,
     <<"7">> >>
\* six fields, well-formed timestamp
ROW_SIX ==
  << TS_GOOD, <<"1">>, <<"2">>, <<"3">>, <<"4">>, <<"5">> >>
\* five fields, timestamp without the Z suffix
ROW_FIVE_NOZ ==
  << TS_NOZ, <<"1">>, <<"2">>, <<"3">>, <<"4">> >>
\* seven fields, 30 February
ROW_FEB30 ==
  << TS_FEB30, <<"1">>, <<"2">>, <<"3">>, <<"4">>, <<"5">>, <<"6">> >>
\* seven fields, year 999
ROW_Y999 ==
  << TS_Y999, <<"9">>, <<"8">>, <<"7">>, <<"6">>, <<"5">>, <<"4">> >>

Records ==
  { ROW_VENDOR_HEADER, ROW_CANDLE, ROW_EIGHT, ROW_SIX, ROW_FIVE_NOZ,
    ROW_FEB30, ROW_Y999 }

\* What the destination holds before the run when it already exists.
OLD_CONTENT == << << <<"o","l","d">> >> >>

SourceFiles == UNION { [1..n -> Records] : n \in 0..MaxRecords }

\* ------------------------------------------------------------------ state
VARIABLES
  src_exists,      \* input_file names an existing file
  src_records,     \* the CSV records csv.reader yields from input_file
  src_damaged,     \* reading past the last record raises instead of ending
  dest_open,       \* what open(output_file, 'w') does: "ok" or the exception
  dest,            \* output_file: [exists, rows]
  libc_pads_year,  \* whether the platform's %Y zero-fills to four digits
  pc,              \* position in the script
  pos,             \* number of records the reader has yielded
  count,           \* convert_csv's local count
  ret,             \* value returned by convert_csv
  stdout           \* the printed messages, in order

vars ==
  << src_exists, src_records, src_damaged, dest_open, dest, libc_pads_year,
     pc, pos, count, ret, stdout >>

env == << src_exists, src_records, src_damaged, dest_open, libc_pads_year >>

Msg(kind, arg) == [kind |-> kind, arg |-> arg]

Init ==
  /\ src_exists \in BOOLEAN
  /\ src_records \in SourceFiles
  /\ src_damaged \in BOOLEAN
  /\ dest \in { [exists |-> FALSE, rows |-> <<>>],
                [exists |-> TRUE, rows |-> OLD_CONTENT] }
  /\ dest_open \in {"ok", "FileNotFoundError", "PermissionError"}
  \* the content of a source that is never read is left out
  /\ (~src_exists \/ dest_open # "ok") =>
       (src_records = <<>> /\ src_damaged = FALSE)
  /\ libc_pads_year \in BOOLEAN
  /\ pc = "main"
  /\ pos = 0
  /\ count = 0
  /\ ret = 0
  /\ stdout = <<>>

\* ---------------------------------------------------------------- helpers
\* variant: the destination is opened before the source
open_files_dest_first ==
  IF dest_open # "ok"
  THEN [exc |-> dest_open, truncated |-> FALSE]
  ELSE IF ~src_exists
       THEN [exc |-> "FileNotFoundError", truncated |-> TRUE]
       ELSE [exc |-> "none", truncated |-> TRUE]

\* with open(input_file, 'r') as infile, open(output_file, 'w') as outfile:
\* the source is opened first, the destination only if that succeeded.
open_files ==
  IF ~src_exists
  THEN [exc |-> "FileNotFoundError", truncated |-> FALSE]
  ELSE IF dest_open # "ok"
       THEN [exc |-> dest_open, truncated |-> FALSE]
       ELSE [exc |-> "none", truncated |-> TRUE]

\* variant: the destination is opened for appending
truncate_keep(d) == [exists |-> TRUE, rows |-> d.rows]

\* open(output_file, 'w'): the file exists afterwards and is empty
truncate(d) == [exists |-> TRUE, rows |-> <<>>]

\* except FileNotFoundError / except Exception as e
except_message(exc) ==
  IF exc = "FileNotFoundError"
  THEN Msg("InputNotFound", input_file)
  ELSE Msg("ErrorConverting", exc)

\* variant: the handler returns the rows written so far
except_return_count(k) == k

\* value returned from either except clause
except_return(k) == 0

Handle(exc) ==
  /\ stdout' = Append(stdout, except_message(exc))
  /\ ret' = except_return(count)
  /\ pc' = "returned"

\* the exception a read past the last record raises
read_past_end == IF src_damaged THEN "UnicodeDecodeError" ELSE "StopIteration"

\* variant: one field fewer is enough
too_short_off_by_one(row) == Len(row) < MinFields - 1

\* if len(row) < 7: continue
too_short(row) == Len(row) < MinFields

\* [formatted_timestamp, open_price, high_price, low_price, close_price, volume]
output_row(formatted_timestamp, row) ==
  << formatted_timestamp, row[2], row[3], row[4], row[5], row[6] >>

\* variant: the timestamp is parsed before the length is looked at
process_row_parse_first(row) ==
  LET dt == strptime(row[1]) IN
  IF ~dt.ok THEN [step |-> "diagnose", timestamp_str |-> row[1]]
  ELSE IF too_short(row) THEN [step |-> "continue"]
  ELSE [step |-> "write",
        row |-> output_row(strftime(dt, libc_pads_year), row)]

\* body of "for row in reader"
process_row(row) ==
  IF too_short(row) THEN [step |-> "continue"]
  ELSE LET dt == strptime(row[1]) IN
       IF dt.ok
       THEN [step |-> "write",
             row |-> output_row(strftime(dt, libc_pads_year), row)]
       ELSE [step |-> "diagnose", timestamp_str |-> row[1]]

\* variant: break, the loop is left
continue_pos_break(p) == Len(src_records)

\* continue: the loop goes on with the record after the p already read
continue_pos(p) == p + 1

\* variant: the first record is not consumed
header_records_none == 1 - 1

\* records consumed by next(reader) before the loop starts
header_records == 1

\* the lines the entry point echoes: for i, line in enumerate(f): if i < 6
sample(rows) ==
  SubSeq(rows, 1, IF Len(rows) < SampleLines THEN Len(rows) ELSE SampleLines)

\* if count > 0
main_success(k) == k > 0

\* ---------------------------------------------------------------- actions
MainStart ==
  /\ pc = "main"
  /\ stdout' = Append(stdout, Msg("Converting", <<>>))
  /\ pc' = "open"
  /\ UNCHANGED << env, dest, pos, count, ret >>

OpenFiles ==
  /\ pc = "open"
  /\ open_files.exc = "none"
  /\ dest' = truncate(dest)
  /\ pc' = "write_header"
  /\ UNCHANGED << env, pos, count, ret, stdout >>

OpenFilesRaises ==
  /\ pc = "open"
  /\ open_files.exc # "none"
  /\ dest' = IF open_files.truncated THEN truncate(dest) ELSE dest
  /\ Handle(open_files.exc)
  /\ UNCHANGED << env, pos, count >>

WriteHeader ==
  /\ pc = "write_header"
  /\ dest' = [dest EXCEPT !.rows = Append(@, HEADER)]
  /\ pc' = "next_header"
  /\ UNCHANGED << env, pos, count, ret, stdout >>

NextHeader ==
  /\ pc = "next_header"
  /\ Len(src_records) > 0
  /\ stdout' = Append(stdout, Msg("InputHeader", src_records[1]))
  /\ pos' = header_records
  /\ count' = 0
  /\ pc' = "loop"
  /\ UNCHANGED << env, dest, ret >>

NextHeaderRaises ==
  /\ pc = "next_header"
  /\ Len(src_records) = 0
  /\ Handle(read_past_end)
  /\ UNCHANGED << env, dest, pos, count >>

LoopShortRow ==
  /\ pc = "loop"
  /\ pos < Len(src_records)
  /\ process_row(src_records[pos + 1]).step = "continue"
  /\ pos' = continue_pos(pos)
  /\ UNCHANGED << env, dest, pc, count, ret, stdout >>

LoopConvert ==
  /\ pc = "loop"
  /\ pos < Len(src_records)
  /\ LET r == process_row(src_records[pos + 1]) IN
       /\ r.step = "write"
       /\ dest' = [dest EXCEPT !.rows = Append(@, r.row)]
  /\ count' = count + 1
  /\ pos' = pos + 1
  /\ UNCHANGED << env, pc, ret, stdout >>

LoopBadTimestamp ==
  /\ pc = "loop"
  /\ pos < Len(src_records)
  /\ LET r == process_row(src_records[pos + 1]) IN
       /\ r.step = "diagnose"
       /\ stdout' = Append(stdout, Msg("TimestampError", r.timestamp_str))
  /\ pos' = continue_pos(pos)
  /\ UNCHANGED << env, dest, pc, count, ret >>

LoopRaises ==
  /\ pc = "loop"
  /\ pos = Len(src_records)
  /\ src_damaged
  /\ Handle(read_past_end)
  /\ UNCHANGED << env, dest, pos, count >>

LoopEnd ==
  /\ pc = "loop"
  /\ pos = Len(src_records)
  /\ ~src_damaged
  /\ stdout' = Append(stdout, Msg("Converted", count))
  /\ ret' = count
  /\ pc' = "returned"
  /\ UNCHANGED << env, dest, pos, count >>

MainSuccess ==
  /\ pc = "returned"
  /\ main_success(ret)
  /\ stdout' = stdout \o << Msg("Successful", ret), Msg("Sample", sample(dest.rows)) >>
  /\ pc' = "exit"
  /\ UNCHANGED << env, dest, pos, count, ret >>

MainFailed ==
  /\ pc = "returned"
  /\ ~main_success(ret)
  /\ stdout' = Append(stdout, Msg("Failed", <<>>))
  /\ pc' = "exit"
  /\ UNCHANGED << env, dest, pos, count, ret >>

Next ==
  \/ MainStart
  \/ OpenFiles
  \/ OpenFilesRaises
  \/ WriteHeader
  \/ NextHeader
  \/ NextHeaderRaises
  \/ LoopShortRow
  \/ LoopConvert
  \/ LoopBadTimestamp
  \/ LoopRaises
  \/ LoopEnd
  \/ MainSuccess
  \/ MainFailed

Spec == Init /\ [][Next]_vars

TypeOK ==
  /\ pc \in {"main", "open", "write_header", "next_header", "loop",
             "returned", "exit"}
  /\ pos \in 0..Len(src_records)
  /\ count \in 0..Len(src_records)
  /\ ret \in 0..Len(src_records)

\* ------------------------------------------------------ claim vocabulary
HasMsg(kind) == \E i \in 1..Len(stdout) : stdout[i].kind = kind

IsKind(m, kind) == m.kind = kind

\* the messages of one kind, in the order printed
RECURSIVE ArgsOf(_, _)
ArgsOf(out, kind) ==
  IF Len(out) = 0 THEN <<>>
  ELSE ArgsOf(SubSeq(out, 1, Len(out) - 1), kind)
         \o (IF out[Len(out)].kind = kind THEN <<out[Len(out)].arg>> ELSE <<>>)

Returned == pc \in {"returned", "exit"}

\* both files were opened
Opened == src_exists /\ dest_open = "ok" /\ pc \notin {"main", "open"}

\* the parse of every timestamp text that occurs in a source
Parsed == [t \in { r[1] : r \in Records } |-> strptime(t)]

\* a source row the specification accepts
Accepted(row) == Len(row) >= 7 /\ Parsed[row[1]].ok

\* a source row the specification diagnoses
Diagnosed(row) == Len(row) >= 7 /\ ~Parsed[row[1]].ok

\* the accepted rows among records 2..k of the source
AcceptedIdx(k) == { i \in 2..k : Accepted(src_records[i]) }

DataLines == SubSeq(dest.rows, 2, Len(dest.rows))

IsOutDigits(t, from, to) == \A k \in from..to : IsDigit(t[k])

\* t reads YYYY-MM-DD HH:MM:SS and shows the moment dt
IsReformatted(t, dt) ==
  /\ Len(t) = 19
  /\ t[5] = "-" /\ t[8] = "-" /\ t[11] = " " /\ t[14] = ":" /\ t[17] = ":"
  /\ IsOutDigits(t, 1, 4) /\ IsOutDigits(t, 6, 7) /\ IsOutDigits(t, 9, 10)
  /\ IsOutDigits(t, 12, 13) /\ IsOutDigits(t, 15, 16)
  /\ IsOutDigits(t, 18, 19)
  /\ IntOf(SubSeq(t, 1, 4)) = dt.year
  /\ IntOf(SubSeq(t, 6, 7)) = dt.month
  /\ IntOf(SubSeq(t, 9, 10)) = dt.day
  /\ IntOf(SubSeq(t, 12, 13)) = dt.hour
  /\ IntOf(SubSeq(t, 15, 16)) = dt.minute
  /\ IntOf(SubSeq(t, 18, 19)) = dt.second

\* the accepted rows among records 2..k, in source order
RECURSIVE AcceptedRows(_)
AcceptedRows(k) ==
  IF k < 2 THEN <<>>
  ELSE AcceptedRows(k - 1)
         \o (IF Accepted(src_records[k]) THEN <<src_records[k]>> ELSE <<>>)

\* the timestamps of the diagnosed rows among records 2..k, in source order
RECURSIVE DiagnosedTimestamps(_)
DiagnosedTimestamps(k) ==
  IF k < 2 THEN <<>>
  ELSE DiagnosedTimestamps(k - 1)
         \o (IF Diagnosed(src_records[k]) THEN <<src_records[k][1]>> ELSE <<>>)

\* ------------------------------------------------------------------ claims

\* C1: when the pass completes without a file-level error, the value
\* returned is the number of source rows after the first line that have at
\* least 7 fields and a parseable field 0, and it is also the number of data
\* lines in the destination after the header.
C1_CountEqualsAcceptedRows ==
  (Returned /\ HasMsg("Converted")) =>
    /\ ret = Cardinality(AcceptedIdx(Len(src_records)))
    /\ ret = Len(dest.rows) - 1
    /\ ArgsOf(stdout, "Converted") = <<ret>>

C1_Witness ==
  /\ pc = "exit"
  /\ HasMsg("Converted")
  /\ ret = 2
  /\ Len(src_records) = 4
  /\ \E i \in 2..4 : ~Accepted(src_records[i])

\* C2: the data lines of the destination are, in source order, one six-field
\* row per accepted source row: field 0 is the timestamp reformatted to
\* YYYY-MM-DD HH:MM:SS, fields 1 to 5 are the source strings unchanged, and
\* source fields from index 6 on never appear.
C2_DataLinesAreReformattedRows ==
  (Opened /\ pos >= 1) =>
    LET src == AcceptedRows(pos) IN
      /\ Len(DataLines) = Len(src)
      /\ \A i \in 1..Len(src) :
           /\ Len(DataLines[i]) = 6
           /\ IsReformatted(DataLines[i][1], Parsed[src[i][1]])
           /\ \A f \in 2..6 : DataLines[i][f] = src[i][f]

\* C3: when the source path does not exist, the destination is neither
\* created nor truncated nor written, the missing source path is reported,
\* and convert_csv returns 0.
C3_MissingSourceLeavesDestination ==
  /\ [][~src_exists => dest' = dest]_vars
  /\ []((~src_exists /\ Returned) =>
          /\ ret = 0
          /\ ArgsOf(stdout, "InputNotFound") = <<input_file>>
          /\ ~HasMsg("ErrorConverting")
          /\ ~HasMsg("Converted"))

C3_Witness ==
  /\ ~src_exists
  /\ pc = "exit"
  /\ dest_open = "ok"
  /\ dest = [exists |-> TRUE, rows |-> OLD_CONTENT]

\* C4: a skipped row (fewer than 7 fields, or an unparseable timestamp)
\* never aborts the pass: the loop goes on with the next record, and a
\* readable source ends with the normal count return that counts every
\* accepted row, also those after malformed rows.
C4_SkippedRowNeverAborts ==
  /\ [][(pc = "loop" /\ pos < Len(src_records)
           /\ ~Accepted(src_records[pos + 1]))
        => (pc' = "loop" /\ pos' = pos + 1 /\ count' = count
              /\ dest' = dest /\ ret' = ret)]_vars
  /\ []((Returned /\ Opened /\ Len(src_records) > 0 /\ ~src_damaged) =>
          /\ HasMsg("Converted")
          /\ ~HasMsg("ErrorConverting")
          /\ pos = Len(src_records)
          /\ Len(DataLines) = Len(AcceptedRows(Len(src_records))))

C4_Witness ==
  /\ pc = "returned"
  /\ HasMsg("Converted")
  /\ Len(src_records) = 4
  /\ Len(src_records[2]) < 7
  /\ Diagnosed(src_records[3])
  /\ Accepted(src_records[4])
  /\ ret = 1
  /\ Len(DataLines) = 1

\* C5: once both files are opened the destination starts empty, its first
\* line is the fixed header, written before any source line is read, and
\* this stays so on every later outcome, a source without accepted rows and
\* an empty source included.
C5_HeaderAlwaysFirst ==
  Opened =>
    /\ dest.exists
    /\ pc = "write_header" => (dest.rows = <<>> /\ pos = 0)
    /\ pc # "write_header" =>
         /\ Len(dest.rows) >= 1
         /\ dest.rows[1] = HEADER
    /\ pc = "next_header" =>
         (dest.rows = <<HEADER>> /\ pos = 0 /\ ~HasMsg("InputHeader"))

C5_Witness ==
  /\ Opened
  /\ pc = "exit"
  /\ Len(src_records) = 0
  /\ ~src_damaged
  /\ dest = [exists |-> TRUE, rows |-> <<HEADER>>]
  /\ HasMsg("ErrorConverting")

\* C6: an error other than a row-level timestamp failure after the files
\* are opened stops convert_csv at once: it reports the error and returns 0
\* rather than the k rows written, and the header and those k rows stay in
\* the destination.
C6_LateErrorReturnsZeroKeepsRows ==
  (Returned /\ Opened /\ (src_damaged \/ Len(src_records) = 0)) =>
    /\ ret = 0
    /\ Len(ArgsOf(stdout, "ErrorConverting")) = 1
    /\ ~HasMsg("Converted")
    /\ ~HasMsg("InputNotFound")
    /\ dest.exists
    /\ dest.rows[1] = HEADER
    /\ Len(DataLines) = Cardinality(AcceptedIdx(Len(src_records)))

C6_Witness ==
  /\ pc = "exit"
  /\ Opened
  /\ src_damaged
  /\ Len(DataLines) = 2
  /\ ret = 0
  /\ HasMsg("ErrorConverting")

\* C7: the first line of the source is never validated, written or
\* counted, whatever it contains: a first line that is a well-formed data
\* row yields no output line, no timestamp diagnostic and no count.
C7_FirstLineDiscarded ==
  (Opened /\ pos >= 1) =>
    /\ count <= pos - 1
    /\ Len(DataLines) <= pos - 1
    /\ Len(ArgsOf(stdout, "TimestampError")) <= pos - 1
    /\ ArgsOf(stdout, "InputHeader") = <<src_records[1]>>

C7_Witness ==
  /\ pc = "exit"
  /\ HasMsg("Converted")
  /\ Len(src_records) = 2
  /\ Accepted(src_records[1])
  /\ ~Accepted(src_records[2])
  /\ ret = 0
  /\ dest.rows = <<HEADER>>

\* C8: a timestamp diagnostic is printed for a row exactly when the row
\* has at least 7 fields and field 0 fails to parse; a row with exactly 7
\* fields and a good timestamp is counted, a row with fewer than 7 fields
\* is skipped without a diagnostic, a diagnosed row is not counted.
C8_DiagnosticIffLongRowBadTimestamp ==
  (Opened /\ pos >= 1) =>
    /\ ArgsOf(stdout, "TimestampError") = DiagnosedTimestamps(pos)
    /\ count = Cardinality(AcceptedIdx(pos))

C8_Witness ==
  /\ pc = "exit"
  /\ HasMsg("Converted")
  /\ Len(src_records) = 4
  /\ \E i \in 2..4 : Len(src_records[i]) = 7 /\ Accepted(src_records[i])
  /\ \E i \in 2..4 :
       Len(src_records[i]) < 7 /\ ~Parsed[src_records[i][1]].ok
  /\ \E i \in 2..4 : Diagnosed(src_records[i])
  /\ ret = 1
  /\ Len(ArgsOf(stdout, "TimestampError")) = 1

\* C9: the entry point prints the success marker whenever the pass
\* completes without a file-level error and the failure marker only after a
\* file-level error; a pass that completes with zero accepted rows is not
\* reported as a failure.
C9_FailureMarkerOnlyOnFileError ==
  pc = "exit" =>
    /\ HasMsg("Converted") => HasMsg("Successful")
    /\ HasMsg("Failed") =>
         (HasMsg("InputNotFound") \/ HasMsg("ErrorConverting"))

\* C10: the "Input file not found" diagnostic is printed only when the
\* source path does not exist; a destination that cannot be opened while
\* the source exists is reported as an unclassified error.
C10_NotFoundOnlyForMissingSource ==
  /\ HasMsg("InputNotFound") => ~src_exists
  /\ (Returned /\ src_exists /\ dest_open # "ok") => HasMsg("ErrorConverting")

====
